---- MODULE Spec2Model ----
(***************************************************************************)
(* AzureSqlConnection (src/utils/azure_sql.py): construction, the          *)
(* connect() retry loop with its fixed-delay backoff, passwordless token   *)
(* acquisition, and the execute_sql / write_table / read_table primitives. *)
(*                                                                         *)
(* connect() is modelled at the granularity of its loop: one step for the  *)
(* call prologue (lines 47-51), one per loop test plus connection_attempt  *)
(* (lines 52-54, 105-115) and one per connection_failure (lines 117-128).  *)
(* pc is the position of the running connect() call; no other operation    *)
(* of the (single-threaded) manager runs while pc # "idle".                *)
(*                                                                         *)
(* The environment (credential provider, transport driver, wall clock) is  *)
(* nondeterministic: every call into it may succeed or raise, and every    *)
(* read of time.time() inside the failure handler may find the clock       *)
(* advanced. Time that passes elsewhere only makes the next attempt later  *)
(* and is not modelled.                                                    *)
(*                                                                         *)
(* list_all_google_sheets and purge_all_google_sheets                      *)
(* (src/utils/google_sheets.py) act on the spreadsheets of a pygsheets     *)
(* client; they share nothing with the manager and have a specification    *)
(* of their own, SpecSheets.                                               *)
(***************************************************************************)
EXTENDS Integers, Sequences, FiniteSets, TLC

\* ---------------------------------------------------------------- bounds
MaxLimit == 2       \* largest attempt_limit passed to the constructor
MaxDelay == 2       \* largest attempt_delay passed to the constructor
MaxTick == 2        \* largest clock advance seen between two reads of time.time()
MaxAuthFails == 2   \* credential-provider failures explored per manager
MaxRows == 5        \* rows of the largest DataFrame given to write_table
MaxBatch == 2       \* largest max_rows given to write_table
MaxSheets == 3      \* spreadsheet ids known to the callers of the Google Sheets functions
MaxKeep == 2        \* longest sheet_ids_to_keep list given to purge_all_google_sheets

\* ------------------------------------------------------- Python values
\* Optional values: None is <<>>, a present value v is <<v>>.
None == <<>>
Some(v) == <<v>>
Val(o) == o[1]

Min(a, b) == IF a < b THEN a ELSE b

\* `x or y` for str | None operands: '' and None are falsy.
OrStr(a, b) == IF a # None /\ a # Some("") THEN a ELSE b
\* `x or y` for int | None operands: 0 and None are falsy.
OrInt(a, b) == IF a # None /\ a # Some(0) THEN a ELSE b

\* kwargs.get(name) in __init__: every name looked up is also a named
\* parameter of __init__, so **kwargs can never hold it and get() yields None.
KwargsGet == None

\* class AuthMethod
PASSWORDLESS == "PASSWORDLESS"
USERNAME_PASSWORD == "USERNAME_PASSWORD"

\* Mutant of AuthMethodOf: `and` in place of `or`.
AuthMethodOfAnd(u, p) ==
    IF u = None /\ p = None THEN PASSWORDLESS ELSE USERNAME_PASSWORD

\* auth_method(): PASSWORDLESS when either credential is None.
AuthMethodOf(u, p) ==
    IF u = None \/ p = None THEN PASSWORDLESS ELSE USERNAME_PASSWORD

\* The dict returned by authenticate_passwordless() ({1256: token_struct}).
AuthTokenAttr == Some("auth_token_attr")

\* The ConnectionError raised at line 97, at line 61 and at lines 133, 144,
\* 165 and 180.
ErrAuth == "ConnectionError: Azure authentication failed"
ErrConnect == "ConnectionError: Unable to connect"
ErrNoConnection == "ConnectionError: No active connection"

\* Clock advances the environment may produce between two reads.
Ticks == 0..MaxTick

\* ---------------------------------------------------------------- state
VARIABLES
    \* instance fields
    username, password, attempt_limit, attempt_delay, auth_method,
    token, attempt_count, mssql_connection,
    initial_attempt_time, attempt_start_time,
    \* the running connect() call
    pc,               \* "idle" | "loop" | "failure"
    exception_time,   \* connection_failure's exception_time, while the call runs
    \* environment
    now,              \* wall clock
    txOpen,           \* the driver session has an uncommitted transaction
    \* observation of the last operation invoked (each operation resets it)
    op,               \* the operation last invoked
    outcome,          \* how it ended: a return or the exception raised
    returned,         \* the value it returned
    startCount,       \* attempt_count when the last connect() was invoked
    callAttempts,     \* mssql_python.connect calls made by the last connect()
    callSleeps,       \* time.sleep calls made by the last connect()
    callAuth,         \* authenticate_passwordless calls made by the last connect()
    authCalls,        \* authenticate_passwordless calls over the manager's life
    authFails,        \* ... of which raised
    transportOk,      \* some mssql_python.connect call has returned a connection
    sqlLog,           \* statements the last operation handed to execute_sql
    driverLog,        \* driver calls made by the last operation
    \* the pygsheets client given to the Google Sheets functions
    spreadsheets,     \* ids of the spreadsheets the connection can reach
    \* observation of the last Google Sheets function called
    gsOp,             \* the function
    gsArg,            \* its sheet_ids_to_keep argument
    gsBefore,         \* the spreadsheets reachable when it was called
    gsDeleted,        \* ids on which it called sh.delete(), in order
    gsOutcome,        \* "return" or the exception raised
    gsReturned        \* the value it returned

fields == <<username, password, attempt_limit, attempt_delay, auth_method>>
conn == <<token, attempt_count, mssql_connection, initial_attempt_time,
          attempt_start_time>>
call == <<startCount, callAttempts, callSleeps, callAuth>>
auth == <<authCalls, authFails>>
logs == <<sqlLog, driverLog, txOpen>>
manager == <<fields, conn, pc, exception_time, now, op, outcome, returned,
             call, auth, transportOk, logs>>
sheets == <<spreadsheets, gsOp, gsArg, gsBefore, gsDeleted, gsOutcome, gsReturned>>
vars == <<manager, sheets>>

\* ------------------------------------------------------------- __init__
\* Constructor arguments explored.
UsernameArgs == {None, Some(""), Some("user")}
PasswordArgs == {None, Some(""), Some("secret")}
LimitArgs == {Some(n) : n \in 0..MaxLimit}
DelayArgs == {Some(n) : n \in 0..MaxDelay}

\* The manager built by AzureSqlConnection(..., u, p, l, d).
ManagerInit(u, p, l, d) ==
        /\ username = OrStr(u, KwargsGet)
        /\ password = OrStr(p, KwargsGet)
        /\ attempt_limit = OrInt(l, KwargsGet)
        /\ attempt_delay = OrInt(d, KwargsGet)
        /\ token = None
        /\ attempt_count = 0
        /\ mssql_connection = None
        /\ initial_attempt_time = None
        /\ attempt_start_time = None
        /\ auth_method = AuthMethodOf(OrStr(u, KwargsGet), OrStr(p, KwargsGet))
        /\ pc = "idle"
        /\ exception_time = None
        /\ now = 0
        /\ txOpen = FALSE
        /\ op = "none"
        /\ outcome = "none"
        /\ returned = None
        /\ startCount = 0
        /\ callAttempts = 0
        /\ callSleeps = 0
        /\ callAuth = 0
        /\ authCalls = 0
        /\ authFails = 0
        /\ transportOk = FALSE
        /\ sqlLog = <<>>
        /\ driverLog = <<>>

\* A pygsheets client reaching the spreadsheets S, no function called yet.
DriveInit(S) ==
    /\ spreadsheets = S
    /\ gsOp = "none"
    /\ gsArg = None
    /\ gsBefore = {}
    /\ gsDeleted = <<>>
    /\ gsOutcome = "none"
    /\ gsReturned = None

Init ==
    \E u \in UsernameArgs, p \in PasswordArgs, l \in LimitArgs, d \in DelayArgs :
        /\ ManagerInit(u, p, l, d)
        /\ DriveInit({})

\* -------------------------------------------------------------- connect
\* Mutant of HasConnection: the short-circuit of line 48 never taken.
HasConnectionNever(c) == FALSE

\* line 48: self.mssql_connection is not None
HasConnection(c) == c # None

\* Mutant of NeedsToken: the cached token is not consulted.
NeedsTokenAlways(am, tk) == am = PASSWORDLESS

\* line 50-51: authenticate_passwordless() runs only for a passwordless
\* manager that holds no token.
NeedsToken(am, tk) == am = PASSWORDLESS /\ tk = None

\* Mutant of LoopGuard: one attempt too many.
LoopGuardLoose(c, cnt, lim) == c = None /\ cnt <= Val(lim) + 1

\* Mutant of LoopGuard: exclusive bound.
LoopGuardStrict(c, cnt, lim) == c = None /\ cnt < Val(lim)

\* line 52: the while condition (attempt_limit is an int here).
LoopGuard(c, cnt, lim) == c = None /\ cnt <= Val(lim)

\* Mutant of NextAttemptCount: the attempts are counted per connect() call.
NextAttemptCountPerCall(cnt, inCall) == inCall + 1

\* line 108: self.attempt_count += 1, whatever the number of attempts the
\* running connect() call has made so far.
NextAttemptCount(cnt, inCall) == cnt + 1

\* The object mssql_python.connect returns on success; each call returns a
\* fresh object, identified here by the number of the attempt that made it.
NewConnection(cnt) == Some(cnt)

\* Mutant of AuthFailureNext: the token is fetched inside the retry loop's try.
AuthFailureNextRetried == "loop"

\* Where connect() goes when authenticate_passwordless() raises: line 51 is
\* outside the try of lines 53-56, so the error leaves connect().
AuthFailureNext == "idle"

\* connect(), lines 47-51: the short-circuit and the token acquisition.
Connect ==
    /\ pc = "idle"
    /\ op' = "connect"
    /\ startCount' = attempt_count
    /\ callAttempts' = 0
    /\ callSleeps' = 0
    /\ exception_time' = None
    /\ sqlLog' = <<>>
    /\ driverLog' = <<>>
    /\ UNCHANGED <<fields, attempt_count, mssql_connection, initial_attempt_time,
                   attempt_start_time, transportOk, txOpen, sheets>>
    /\ IF HasConnection(mssql_connection)
       THEN \* line 49
            /\ outcome' = "return"
            /\ returned' = mssql_connection
            /\ callAuth' = 0
            /\ UNCHANGED <<token, pc, now, auth>>
       ELSE IF NeedsToken(auth_method, token)
       THEN \* line 51 -> authenticate_passwordless(), lines 91-103
            /\ callAuth' = 1
            /\ authCalls' = authCalls + 1
            /\ returned' = None
            /\ UNCHANGED now
            /\ \/ \* credential.get_token raised: ConnectionError, line 97
                  /\ authFails < MaxAuthFails
                  /\ authFails' = authFails + 1
                  /\ outcome' = ErrAuth
                  /\ pc' = AuthFailureNext
                  /\ UNCHANGED token
               \/ \* line 103
                  /\ token' = AuthTokenAttr
                  /\ outcome' = "running"
                  /\ pc' = "loop"
                  /\ UNCHANGED authFails
       ELSE /\ callAuth' = 0
            /\ outcome' = "running"
            /\ returned' = None
            /\ pc' = "loop"
            /\ UNCHANGED <<token, now, auth>>

\* connect(), line 52 and the try body: the loop test, then
\* connection_attempt() (lines 105-115) with the transport's answer.
LoopStep ==
    /\ pc = "loop"
    /\ UNCHANGED <<fields, token, now, op, startCount,
                   callSleeps, callAuth, auth, logs, sheets>>
    /\ IF attempt_limit = None
       THEN \* int <= None
            /\ pc' = "idle"
            /\ outcome' = "TypeError"
            /\ UNCHANGED <<attempt_count, mssql_connection, initial_attempt_time,
                           attempt_start_time, returned, callAttempts, transportOk>>
       ELSE IF LoopGuard(mssql_connection, attempt_count, attempt_limit)
       THEN /\ attempt_start_time' = Some(now)
            /\ initial_attempt_time' =
                   IF initial_attempt_time = None THEN Some(now)
                   ELSE initial_attempt_time
            /\ attempt_count' = NextAttemptCount(attempt_count, callAttempts)
            /\ callAttempts' = callAttempts + 1
            /\ \/ \* mssql_python.connect returned: lines 112/114, then 58-60
                  /\ mssql_connection' = NewConnection(attempt_count')
                  /\ transportOk' = TRUE
                  /\ pc' = "idle"
                  /\ outcome' = "return"
                  /\ returned' = NewConnection(attempt_count')
               \/ \* mssql_python.connect raised: line 55
                  /\ pc' = "failure"
                  /\ UNCHANGED <<mssql_connection, transportOk, outcome, returned>>
       ELSE \* line 61
            /\ pc' = "idle"
            /\ outcome' = ErrConnect
            /\ UNCHANGED <<attempt_count, mssql_connection, initial_attempt_time,
                           attempt_start_time, returned, callAttempts, transportOk>>
    /\ exception_time' = IF pc' = "idle" THEN None ELSE exception_time

\* Mutant of WakeTimes: time.sleep returns at once.
WakeTimesNoSleep(t, wait) == {t}

\* time.sleep(wait) entered at time t returns no earlier than t + wait. The
\* earliest return is kept: a later one only moves the next attempt later.
WakeTimes(t, wait) == {t + wait}

\* line 119: attempt_timeout_time = exception_time + self.attempt_delay
Deadline(exc, delay) == exc + Val(delay)

\* connect(), line 56: connection_failure(ex), lines 117-128.
FailureStep(ticks) ==
    /\ pc = "failure"
    /\ UNCHANGED <<fields, conn, op, returned, startCount, callAttempts, callAuth,
                   auth, transportOk, logs, sheets>>
    /\ \E a1 \in ticks, a2 \in ticks, a3 \in ticks :
         LET t1 == now + a1    \* line 118
             t2 == t1 + a2     \* line 124
             t3 == t2 + a3     \* line 125
         IN  IF attempt_delay = None
             THEN \* line 119: float + None
                  /\ pc' = "idle"
                  /\ outcome' = "TypeError"
                  /\ exception_time' = None
                  /\ now' = t1
                  /\ UNCHANGED callSleeps
             ELSE LET deadline == Deadline(t1, attempt_delay)
                  IN  IF deadline > t2
                      THEN IF deadline - t3 < 0
                           THEN \* line 127: time.sleep of a negative length
                                /\ pc' = "idle"
                                /\ outcome' = "ValueError"
                                /\ exception_time' = None
                                /\ now' = t3
                                /\ UNCHANGED callSleeps
                           ELSE /\ pc' = "loop"
                                /\ exception_time' = Some(t1)
                                /\ now' \in WakeTimes(t3, deadline - t3)
                                /\ callSleeps' = callSleeps + 1
                                /\ UNCHANGED outcome
                      ELSE /\ pc' = "loop"
                           /\ exception_time' = Some(t1)
                           /\ now' = t2
                           /\ UNCHANGED <<callSleeps, outcome>>

\* ---------------------------------------------------------- execute_sql
\* What the driver hands back for a query.
DriverRows == << <<"x", "y">>, <<"z", "w">> >>
DriverDescription == << <<"a", "str">>, <<"b", "str">> >>

\* A call of execute_sql: the kind of its statement and its `data` and
\* `return_results` arguments.
Stmt(kind, data, return_results) ==
    [kind |-> kind, data |-> data, return_results |-> return_results]

\* Mutant of ExecuteSqlCalls: the failure path commits instead of rolling back.
ExecuteSqlCallsCommitOnError(data, return_results, ok) ==
    <<"cursor", IF data # None THEN "executemany" ELSE "execute">>
    \o (IF return_results /\ ok THEN <<"fetchall", "commit">> ELSE <<"commit">>)

\* Mutant of ExecuteSqlCalls: no commit when no results are asked for.
ExecuteSqlCallsNoCommit(data, return_results, ok) ==
    <<"cursor", IF data # None THEN "executemany" ELSE "execute">>
    \o (IF ~ok THEN <<"rollback">>
        ELSE IF return_results THEN <<"fetchall", "commit">>
        ELSE <<>>)

\* execute_sql, lines 181-202: the driver calls of one execution whose
\* statement succeeds (ok) or raises.
ExecuteSqlCalls(data, return_results, ok) ==
    <<"cursor", IF data # None THEN "executemany" ELSE "execute">>
    \o (IF ~ok THEN <<"rollback">>
        ELSE IF return_results THEN <<"fetchall", "commit">>
        ELSE <<"commit">>)

\* execute_sql, lines 195-202: the value returned after a successful statement.
ExecuteSqlResult(return_results) ==
    IF return_results THEN <<DriverRows, DriverDescription>> ELSE << <<>>, <<>> >>

\* The driver session's transaction after a run of driver calls.
RECURSIVE TxAfter(_, _)
TxAfter(open, calls) ==
    IF calls = <<>> THEN open
    ELSE TxAfter(CASE Head(calls) \in {"execute", "executemany"} -> TRUE
                   [] Head(calls) \in {"commit", "rollback"} -> FALSE
                   [] OTHER -> open,
                 Tail(calls))

\* Mutant of NoActiveConnection: the guard is missing.
NoActiveConnectionUnchecked(c) == FALSE

\* lines 143, 164, 179: self.mssql_connection is None
NoActiveConnection(c) == c = None

\* Statements executed one after the other by execute_sql, the failAt-th
\* raising (0: none raises): the driver calls made.
RECURSIVE RunCalls(_, _, _)
RunCalls(stmts, failAt, i) ==
    IF i > Len(stmts) \/ (failAt # 0 /\ i > failAt) THEN <<>>
    ELSE ExecuteSqlCalls(stmts[i].data, stmts[i].return_results, i # failAt)
         \o RunCalls(stmts, failAt, i + 1)

\* The statements among stmts that reach execute_sql.
Issued(stmts, failAt) ==
    IF failAt = 0 THEN stmts ELSE SubSeq(stmts, 1, failAt)

\* An operation that is not connect() ends: its observation.
Finish(name, how, value, stmts, calls) ==
    /\ op' = name
    /\ outcome' = how
    /\ returned' = value
    /\ sqlLog' = stmts
    /\ driverLog' = calls
    /\ txOpen' = TxAfter(txOpen, calls)
    /\ startCount' = attempt_count
    /\ callAttempts' = 0
    /\ callSleeps' = 0
    /\ callAuth' = 0
    /\ UNCHANGED <<fields, conn, pc, exception_time, now, auth, transportOk, sheets>>

\* The `data` arguments a caller passes to execute_sql.
DataArgs == {None, Some(<< <<"p">>, <<"q">> >>)}

\* execute_sql(sql, data, return_results), lines 178-202.
ExecuteSql ==
    /\ pc = "idle"
    /\ \E data \in DataArgs, return_results \in BOOLEAN, ok \in BOOLEAN :
         LET stmts == <<Stmt("SQL", data, return_results)>>
             calls == ExecuteSqlCalls(data, return_results, ok)
         IN  IF NoActiveConnection(mssql_connection)
             THEN Finish("execute_sql", ErrNoConnection,
                         None, <<>>, <<>>)
             ELSE IF ok
             THEN Finish("execute_sql", "return", ExecuteSqlResult(return_results),
                         stmts, calls)
             ELSE Finish("execute_sql", "DriverError", None, stmts, calls)

\* ----------------------------------------------------------- write_table
\* Cell i of the DataFrame given to write_table: every third one is missing.
FrameCell(i) == IF i % 3 = 2 THEN None ELSE Some(i)

\* line 148: df.astype('string').fillna('')
AsText(cell) == IF cell = None THEN "" ELSE ToString(Val(cell))

\* line 149: the rows of a one-column frame of n rows, as tuples.
FrameData(n) == [i \in 1..n |-> <<AsText(FrameCell(i))>>]

\* list(range(start, stop, step)) for step # 0.
RECURSIVE Range(_, _, _)
Range(start, stop, step) ==
    IF (step > 0 /\ start >= stop) \/ (step < 0 /\ start <= stop) THEN <<>>
    ELSE <<start>> \o Range(start + step, stop, step)

\* Mutant of Slice: the end of the slice is inclusive.
SliceInclusive(seq, start, end) == SubSeq(seq, start + 1, Min(end + 1, Len(seq)))

\* seq[start:end] for 0 <= start <= end.
Slice(seq, start, end) == SubSeq(seq, start + 1, Min(end, Len(seq)))

\* lines 150-152: drop_table (204-208) then create_table (210-217).
Prelude(create) ==
    IF create THEN <<Stmt("DROP", None, FALSE), Stmt("CREATE", None, FALSE)>>
    ELSE <<>>

\* lines 153-158: one INSERT per start row of range(0, len(data), max_rows).
InsertBatches(data, max_rows) ==
    LET starts == Range(0, Len(data), max_rows)
    IN  [k \in 1..Len(starts) |->
            Stmt("INSERT", Some(Slice(data, starts[k], starts[k] + max_rows)), FALSE)]

\* The arguments of the last write_table call.
WriteArgs(n, max_rows, create) == [rows |-> n, max_rows |-> max_rows, create |-> create]

\* write_table(df, table_name, create, max_rows=max_rows), lines 140-159, for
\* a frame of n rows; max_rows = 0 makes range() raise ValueError at line 153
\* and a negative max_rows makes it empty.
WriteTable(rowCounts, batchSizes) ==
    /\ pc = "idle"
    /\ \E n \in rowCounts, max_rows \in batchSizes, create \in BOOLEAN :
         LET data == FrameData(n)
             stmts == IF max_rows = 0 THEN Prelude(create)
                      ELSE Prelude(create) \o InsertBatches(data, max_rows)
         IN  IF NoActiveConnection(mssql_connection)
             THEN Finish("write_table", ErrNoConnection,
                         None, <<>>, <<>>)
             ELSE \E failAt \in 0..Len(stmts) :
                    Finish("write_table",
                           IF failAt # 0 THEN "DriverError"
                           ELSE IF max_rows = 0 THEN "ValueError"
                           ELSE "return",
                           WriteArgs(n, max_rows, create),
                           Issued(stmts, failAt),
                           RunCalls(stmts, failAt, 1))

\* ------------------------------------------------------------ read_table
\* lines 169-174: one mapping column name -> value per row.
RowDicts(results, description) ==
    [r \in 1..Len(results) |->
        [c \in {description[i][1] : i \in 1..Len(description)} |->
            results[r][CHOOSE i \in 1..Len(description) : description[i][1] = c]]]

\* read_table(table_name), lines 161-176.
ReadTable ==
    /\ pc = "idle"
    /\ \E ok \in BOOLEAN :
         LET stmts == <<Stmt("SELECT", None, TRUE)>>
             calls == ExecuteSqlCalls(None, TRUE, ok)
         IN  IF NoActiveConnection(mssql_connection)
             THEN Finish("read_table", ErrNoConnection,
                         None, <<>>, <<>>)
             ELSE IF ok
             THEN Finish("read_table", "return",
                         RowDicts(ExecuteSqlResult(TRUE)[1], ExecuteSqlResult(TRUE)[2]),
                         stmts, calls)
             ELSE Finish("read_table", "DriverError", None, stmts, calls)

\* --------------------------------------------------------- google_sheets
\* Spreadsheet ids.
SheetKeys == 1..MaxSheets

\* connection.spreadsheet_ids(): the ids of S as a list (here in rising order).
RECURSIVE SheetIds(_)
SheetIds(S) ==
    IF S = {} THEN <<>>
    ELSE LET least == CHOOSE x \in S : \A y \in S : x <= y
         IN  <<least>> \o SheetIds(S \ {least})

\* The members of a list.
Members(seq) == {seq[i] : i \in 1..Len(seq)}

\* A sheet_ids_to_keep argument: one id as a str, or a list of ids.
KeepStr(id) == [kind |-> "str", id |-> id]
KeepIds(ids) == [kind |-> "list", ids |-> ids]
KeepArgs ==
    {KeepStr(id) : id \in SheetKeys}
    \cup {KeepIds(ids) : ids \in UNION {[1..n -> SheetKeys] : n \in 0..MaxKeep}}

\* line 23: a str becomes a one-element list.
KeepList(arg) == IF arg.kind = "str" THEN <<arg.id>> ELSE arg.ids

\* line 25: [i for i in sheet_ids_to_keep if i in sheet_ids]
SheetsToKeep(keep, sheet_ids) ==
    LET Found(i) == i \in Members(sheet_ids) IN SelectSeq(keep, Found)

\* line 26: [i for i in sheet_ids if i not in sheet_ids_to_keep]
SheetsToDelete(keep, sheet_ids) ==
    LET Unkept(i) == i \notin Members(keep) IN SelectSeq(sheet_ids, Unkept)

\* line 28: the list the deleting loop runs over.
PurgeLoopOver(to_keep, to_delete) == to_keep

\* lines 28-31: open_by_key and delete for each target in turn;
\* open_by_key raises for an id the connection no longer reaches.
RECURSIVE RunDeletes(_, _, _)
RunDeletes(targets, drive, done) ==
    IF targets = <<>> THEN [drive |-> drive, deleted |-> done, how |-> "return"]
    ELSE IF Head(targets) \notin drive
    THEN [drive |-> drive, deleted |-> done, how |-> "SpreadsheetNotFound"]
    ELSE RunDeletes(Tail(targets), drive \ {Head(targets)}, Append(done, Head(targets)))

\* list_all_google_sheets(connection), lines 7-16.
ListAllGoogleSheets ==
    /\ gsOp' = "list_all_google_sheets"
    /\ gsArg' = None
    /\ gsBefore' = spreadsheets
    /\ gsDeleted' = <<>>
    /\ gsOutcome' = "return"
    /\ gsReturned' = SheetIds(spreadsheets)
    /\ UNCHANGED <<spreadsheets, manager>>

\* purge_all_google_sheets(connection, sheet_ids_to_keep), lines 19-31.
PurgeAllGoogleSheets ==
    \E arg \in KeepArgs :
        LET sheet_ids == SheetIds(spreadsheets)
            to_keep == SheetsToKeep(KeepList(arg), sheet_ids)
            to_delete == SheetsToDelete(to_keep, sheet_ids)
            run == RunDeletes(PurgeLoopOver(to_keep, to_delete), spreadsheets, <<>>)
        IN  /\ gsOp' = "purge_all_google_sheets"
            /\ gsArg' = arg
            /\ gsBefore' = spreadsheets
            /\ spreadsheets' = run.drive
            /\ gsDeleted' = run.deleted
            /\ gsOutcome' = run.how
            /\ gsReturned' = None
            /\ UNCHANGED manager

\* ------------------------------------------------------- specifications
\* Frames and batch sizes given to write_table.
SmallFrames == 0..1
SmallBatches == {1}
AllFrames == 0..MaxRows
AllBatches == -1..MaxBatch

\* The connection machine with every configuration and timing; write_table
\* gets frames of at most one row.
Next ==
    \/ Connect
    \/ LoopStep
    \/ FailureStep(Ticks)
    \/ ExecuteSql
    \/ WriteTable(SmallFrames, SmallBatches)
    \/ ReadTable

Spec == Init /\ [][Next]_vars

\* write_table with every frame and batch size, on a manager built with
\* username and password, attempt_limit=1 and attempt_delay=1, under a
\* clock that moves only while connect() sleeps.
InitTable ==
    /\ Init
    /\ auth_method = USERNAME_PASSWORD
    /\ attempt_limit = Some(1)
    /\ attempt_delay = Some(1)

NextTable ==
    \/ Connect
    \/ LoopStep
    \/ FailureStep({0})
    \/ ExecuteSql
    \/ WriteTable(AllFrames, AllBatches)
    \/ ReadTable

SpecTable == InitTable /\ [][NextTable]_vars

\* The Google Sheets functions on a client reaching any set of spreadsheets;
\* the manager is built and left alone.
InitSheets ==
    /\ ManagerInit(None, None, Some(1), Some(1))
    /\ \E S \in SUBSET SheetKeys : DriveInit(S)

NextSheets ==
    \/ ListAllGoogleSheets
    \/ PurgeAllGoogleSheets

SpecSheets == InitSheets /\ [][NextSheets]_vars

\* ----------------------------------------------------------------- claims
\* Number of positions of seq holding a member of S.
Count(seq, S) == Cardinality({i \in 1..Len(seq) : seq[i] \in S})

\* C1: a connect() call invoked with attempt_count = 0 on a manager whose
\* attempt_limit is N, that reached the retry loop and in which no transport
\* attempt succeeded, never makes more than N+1 attempts and ends, after
\* exactly N+1 of them, with ConnectionError('Unable to connect ...').
C1_ExhaustsAfterLimitPlusOne ==
    (op = "connect" /\ startCount = 0 /\ attempt_limit # None /\ outcome # ErrAuth)
    => /\ callAttempts <= Val(attempt_limit) + 1
       /\ (pc = "idle" /\ outcome # "return")
          => (callAttempts = Val(attempt_limit) + 1 /\ outcome = ErrConnect)

\* C2: once the manager holds a connection, no step replaces or clears it,
\* makes a transport attempt, changes attempt_count or acquires a token, and
\* every connect() call returns that same connection.
C2_ConnectedIsStable ==
    [][mssql_connection # None
       => /\ mssql_connection' = mssql_connection
          /\ attempt_count' = attempt_count
          /\ token' = token
          /\ authCalls' = authCalls
          /\ pc' = "idle"
          /\ op' = "connect"
             => /\ outcome' = "return"
                /\ returned' = mssql_connection
                /\ callAttempts' = 0
                /\ callSleeps' = 0
                /\ callAuth' = 0]_vars

\* A connect() call answered from the held connection, on a manager that
\* connected on its second attempt or later.
C2_Witness ==
    /\ op = "connect"
    /\ outcome = "return"
    /\ mssql_connection # None
    /\ returned = mssql_connection
    /\ callAttempts = 0
    /\ attempt_count >= 2
    /\ txOpen = FALSE

\* C3 as stated: authenticate_passwordless() runs at most once over the life
\* of a manager.
C3_AuthAtMostOnce == authCalls <= 1

\* C3 amended: every run of authenticate_passwordless() but the one whose
\* token the manager holds has raised; it never runs once a token is held,
\* and never on a USERNAME_PASSWORD manager.
C3_AuthUntilTokenHeld ==
    /\ authCalls = authFails + (IF token = None THEN 0 ELSE 1)
    /\ callAuth <= 1
    /\ auth_method = USERNAME_PASSWORD => authCalls = 0

\* A later connect() call that retries the transport with the token of an
\* earlier call, on a manager whose credential provider has failed before.
C3_Witness ==
    /\ op = "connect"
    /\ token # None
    /\ authFails >= 1
    /\ authCalls = authFails + 1
    /\ callAuth = 0
    /\ startCount >= 1
    /\ callAttempts >= 1

\* C4: within one connect() call, an attempt that follows a failed one
\* starts at least attempt_delay after connection_failure observed the
\* failure, hence at least attempt_delay after the failed attempt started;
\* attempt_delay itself never changes.
C4_RetrySpacing ==
    [][/\ attempt_delay' = attempt_delay
       /\ (pc = "loop" /\ exception_time # None /\ attempt_count' = attempt_count + 1)
          => /\ Val(attempt_start_time') >= Val(exception_time) + Val(attempt_delay)
             /\ Val(attempt_start_time') >= Val(attempt_start_time) + Val(attempt_delay)
             /\ Val(exception_time) >= Val(attempt_start_time)]_vars

\* A third attempt of one connect() call, started after two backoff sleeps.
C4_Witness ==
    /\ op = "connect"
    /\ callAttempts = 3
    /\ callSleeps = 2
    /\ attempt_delay # None
    /\ Val(attempt_start_time) >= Val(initial_attempt_time) + 2 * Val(attempt_delay)

\* C5: a connect() call in which authenticate_passwordless() raised has
\* ended with that error after one token request, no transport attempt and
\* no sleep, with attempt_count as it was and no connection held.
C5_TokenFailureIsFatal ==
    (op = "connect" /\ outcome = ErrAuth)
    => /\ pc = "idle"
       /\ auth_method = PASSWORDLESS
       /\ callAuth = 1
       /\ callAttempts = 0
       /\ callSleeps = 0
       /\ attempt_count = startCount
       /\ mssql_connection = None
       /\ returned = None

\* The credential provider fails a second connect() call as it failed the
\* first: each call asked for the token once and went no further.
C5_Witness ==
    /\ op = "connect"
    /\ outcome = ErrAuth
    /\ pc = "idle"
    /\ authFails = 2
    /\ callAttempts = 0

ExecuteCalls == {"execute", "executemany"}

\* C6: an operation that ended because the driver raised on a statement has
\* made exactly one rollback, as its last driver call and right after the
\* one execution of the statement that raised; the statement was not
\* committed, and execute_sql itself made no commit and one execution.
C6_RollbackOnDriverError ==
    (outcome = "DriverError")
    => LET k == Len(driverLog)
       IN  /\ k >= 3
           /\ driverLog[k] = "rollback"
           /\ driverLog[k - 1] \in ExecuteCalls
           /\ driverLog[k - 2] = "cursor"
           /\ Count(driverLog, {"rollback"}) = 1
           /\ Count(driverLog, ExecuteCalls) = Len(sqlLog)
           /\ Count(driverLog, {"commit"}) = Len(sqlLog) - 1
           /\ txOpen = FALSE
           /\ op \in {"execute_sql", "read_table"}
              => /\ Len(sqlLog) = 1
                 /\ returned = None

\* The batch form of execute_sql raising.
C6_Witness ==
    /\ op = "execute_sql"
    /\ outcome = "DriverError"
    /\ sqlLog[1].data # None
    /\ driverLog = <<"cursor", "executemany", "rollback">>

\* C7: an operation whose statements all succeeded has committed each of
\* them once, the commit being the last driver call of the statement, and
\* rolled nothing back, so no transaction stays open; execute_sql without
\* return_results returns ([], []), and with it fetches right before the
\* commit and returns the rows and the description.
C7_CommitPerStatement ==
    /\ pc = "idle" => txOpen = FALSE
    /\ (op \in {"execute_sql", "read_table", "write_table"} /\ outcome = "return")
       => /\ Count(driverLog, {"commit"}) = Len(sqlLog)
          /\ Count(driverLog, ExecuteCalls) = Len(sqlLog)
          /\ Count(driverLog, {"rollback"}) = 0
          /\ driverLog # <<>> => driverLog[Len(driverLog)] = "commit"
          /\ \A i \in 1..Len(driverLog) :
                driverLog[i] = "fetchall" => driverLog[i + 1] = "commit"
    /\ (op = "execute_sql" /\ outcome = "return")
       => /\ Len(sqlLog) = 1
          /\ IF sqlLog[1].return_results
             THEN /\ Count(driverLog, {"fetchall"}) = 1
                  /\ returned = <<DriverRows, DriverDescription>>
             ELSE /\ Count(driverLog, {"fetchall"}) = 0
                  /\ returned = << <<>>, <<>> >>

\* execute_sql without return_results: empty result, committed.
C7_Witness ==
    /\ op = "execute_sql"
    /\ outcome = "return"
    /\ sqlLog[1].return_results = FALSE
    /\ returned = << <<>>, <<>> >>
    /\ driverLog = <<"cursor", "execute", "commit">>
    /\ txOpen = FALSE

\* C8: a manager holds a connection only after a transport attempt has
\* returned one; while it holds none, execute_sql, write_table and
\* read_table raise the no-connection error and make no driver call.
C8_NoConnectionNoDriverCall ==
    /\ mssql_connection # None => transportOk
    /\ (mssql_connection = None /\ op \in {"execute_sql", "write_table", "read_table"})
       => /\ outcome = ErrNoConnection
          /\ sqlLog = <<>>
          /\ driverLog = <<>>
          /\ txOpen = FALSE
          /\ returned = None

\* write_table on a manager whose connect() calls exhausted their retries.
C8_Witness ==
    /\ op = "write_table"
    /\ outcome = ErrNoConnection
    /\ mssql_connection = None
    /\ attempt_limit # None
    /\ attempt_count = Val(attempt_limit) + 1
    /\ driverLog = <<>>

\* The rows of statements i..Len(stmts), one after the other.
RECURSIVE Joined(_, _)
Joined(stmts, i) ==
    IF i > Len(stmts) THEN <<>> ELSE Val(stmts[i].data) \o Joined(stmts, i + 1)

\* C9: in a write_table call on a connected manager, with create the first
\* two statements are the drop and the create and every later one an
\* insert; without create every statement is an insert. When a call with
\* max_rows >= 1 returns, the inserts are ceil(rows / max_rows) batches of
\* max_rows rows each, the last one holding the remainder, and together they
\* are the frame's rows in their order.
C9_WriteTableBatches ==
    (op = "write_table" /\ outcome # ErrNoConnection)
    => LET first == IF returned.create THEN 3 ELSE 1
           m == returned.max_rows
           n == returned.rows
           batches == Len(sqlLog) - (first - 1)
       IN  /\ \A i \in 1..Len(sqlLog) :
                sqlLog[i].kind = IF returned.create /\ i = 1 THEN "DROP"
                                 ELSE IF returned.create /\ i = 2 THEN "CREATE"
                                 ELSE "INSERT"
           /\ \A i \in first..Len(sqlLog) : Len(Val(sqlLog[i].data)) \in 1..m
           /\ (outcome = "return" /\ m >= 1)
              => /\ batches * m >= n
                 /\ (batches - 1) * m < n \/ (n = 0 /\ batches = 0)
                 /\ \A i \in first..(Len(sqlLog) - 1) : Len(Val(sqlLog[i].data)) = m
                 /\ Joined(sqlLog, first) = FrameData(n)

\* Five rows written with create and max_rows=2: drop, create, then
\* batches of 2, 2 and 1 rows.
C9_Witness ==
    /\ op = "write_table"
    /\ outcome = "return"
    /\ returned = WriteArgs(5, 2, TRUE)
    /\ Len(sqlLog) = 5
    /\ sqlLog[1].kind = "DROP"
    /\ sqlLog[2].kind = "CREATE"
    /\ Len(Val(sqlLog[3].data)) = 2
    /\ Len(Val(sqlLog[4].data)) = 2
    /\ Len(Val(sqlLog[5].data)) = 1

\* C10: the manager is USERNAME_PASSWORD exactly when it holds both a
\* username and a password and PASSWORDLESS otherwise; no step changes the
\* method or the credentials, and a USERNAME_PASSWORD manager never asks the
\* credential provider for a token.
C10_AuthMethodFixed ==
    /\ [](/\ auth_method \in {PASSWORDLESS, USERNAME_PASSWORD}
          /\ auth_method = USERNAME_PASSWORD <=> (username # None /\ password # None)
          /\ auth_method = USERNAME_PASSWORD => (authCalls = 0 /\ token = None))
    /\ [][/\ auth_method' = auth_method
          /\ username' = username
          /\ password' = password]_vars

\* A manager given a username and no password has asked for a token.
C10_Witness ==
    /\ username # None
    /\ password = None
    /\ auth_method = PASSWORDLESS
    /\ authCalls >= 1
    /\ mssql_connection # None

\* C11: purge_all_google_sheets, when it returns, has deleted every
\* spreadsheet that was reachable and is not in sheet_ids_to_keep (a str
\* being one id to keep) and none that is in it.
C11_PurgeKeepsOnlyListed ==
    (gsOp = "purge_all_google_sheets" /\ gsOutcome = "return")
    => LET kept == IF gsArg.kind = "str" THEN {gsArg.id} ELSE Members(gsArg.ids)
       IN  /\ Members(gsDeleted) = gsBefore \ kept
           /\ Members(gsDeleted) \cap kept = {}
           /\ spreadsheets = gsBefore \cap kept

\* C12: no step lowers attempt_count; it grows by one exactly in the steps
\* that make a transport attempt, failed or not, and by nothing else, so
\* during and after every connect() call it is the count the call started
\* from plus the attempts the call has made.
C12_AttemptCountNeverReset ==
    [][/\ attempt_count' \in {attempt_count, attempt_count + 1}
       /\ attempt_count' = attempt_count + 1
          <=> (pc = "loop" /\ callAttempts' = callAttempts + 1)
       /\ op' = "connect" => attempt_count' = startCount' + callAttempts']_vars

\* A connect() call that follows a failed one and makes an attempt: the
\* count goes on from where the failed call left it.
C12_Witness ==
    /\ op = "connect"
    /\ startCount >= 1
    /\ callAttempts >= 1
    /\ attempt_count = startCount + callAttempts
    /\ attempt_count >= 2

\* C13: a connect() call invoked with attempt_count = 0 on a manager whose
\* attempt_limit is N does not give up while the transport has failed N
\* times or fewer; when the attempt after k failures succeeds it returns
\* the connection just made, after k+1 attempts, at most one sleep per
\* failure, at least k * attempt_delay after the first attempt and, on a
\* passwordless manager, with the one token ever fetched.
C13_SucceedsAfterKFailures ==
    (op = "connect" /\ pc = "idle" /\ startCount = 0 /\ attempt_limit # None
        /\ outcome # ErrAuth)
    => /\ outcome # "return" => callAttempts = Val(attempt_limit) + 1
       /\ outcome = "return"
          => /\ callAttempts \in 1..(Val(attempt_limit) + 1)
             /\ attempt_count = callAttempts
             /\ returned = mssql_connection
             /\ mssql_connection = NewConnection(callAttempts)
             /\ callSleeps <= callAttempts - 1
             /\ callAttempts >= 2
                => Val(attempt_start_time)
                       >= Val(initial_attempt_time)
                          + (callAttempts - 1) * Val(attempt_delay)
             /\ auth_method = PASSWORDLESS => authCalls = authFails + 1

\* C14: attempt_count never passes attempt_limit + 1, and a connect() call
\* invoked with attempt_count = attempt_limit + 1 on a manager that holds no
\* connection makes no attempt, no sleep and no token request and ends with
\* ConnectionError('Unable to connect ...').
C14_LifetimeAttemptBudget ==
    attempt_limit # None
    => /\ attempt_count <= Val(attempt_limit) + 1
       /\ (op = "connect" /\ mssql_connection = None
              /\ startCount = Val(attempt_limit) + 1)
          => /\ callAttempts = 0
             /\ callSleeps = 0
             /\ callAuth = 0
             /\ pc \in {"idle", "loop"}
             /\ pc = "idle" => outcome = ErrConnect

\* A connect() call on a manager whose earlier call used up the attempts:
\* it raised without an attempt.
C14_Witness ==
    /\ op = "connect"
    /\ pc = "idle"
    /\ attempt_limit # None
    /\ mssql_connection = None
    /\ startCount = Val(attempt_limit) + 1
    /\ callAttempts = 0
    /\ outcome = ErrConnect
====
